---- MODULE Spec2Model ----
(***************************************************************************)
(* Model of the Merit referral subsystem:                                  *)
(*   - the persistent referral store     (src/src/refdb.cpp)               *)
(*   - the ANV propagator                (src/src/refdb.cpp, UpdateANV)    *)
(*   - the batch orderer                 (src/src/refdb.cpp, OrderReferrals)*)
(*   - the cache in front of the store   (src/src/referrals.cpp)           *)
(*   - the referral mempool              (src/src/refmempool.cpp)          *)
(*                                                                         *)
(* The key-value engine is assumed never to fail a read, write or erase;   *)
(* every `return false` that only follows a failed m_db call is therefore  *)
(* left out.  A failed assert() ends the process: the persistent store     *)
(* keeps what was written before it.                                       *)
(***************************************************************************)
EXTENDS Integers, Sequences, FiniteSets, TLC

(***************************************************************************)
(* Bounds of the model.                                                    *)
(***************************************************************************)
NAddr == 2          \* addresses are 1..NAddr
MaxChildren == 2    \* longest child list the model lets grow
MaxAmount == 2      \* largest ANV amount the model lets grow
MaxType == 1        \* address types are 1..MaxType
MaxInserts == 3     \* InsertReferral calls in a run of SpecANV
MaxUpdates == 2     \* UpdateANV calls in a run of SpecANV
NHash == 3          \* referral hashes are 1..NHash
MaxBatch == 4       \* longest batch passed to OrderReferrals
NPoolAddr == 2      \* addresses of mempool referrals are 1..NPoolAddr
MaxTime == 2        \* entry times are 1..MaxTime
MaxPool == 3        \* entries the mempool holds at once (its nodes are 1..MaxPool)
MaxAdds == 3        \* AddUnchecked calls in a run of SpecPool
MaxRemoves == 2     \* RemoveRecursive, RemoveForBlock and Expire calls in a run of SpecPool
MaxBlock == 2       \* referrals of a block passed to RemoveForBlock
NThreads == 2       \* threads that call into the cache or into the mempool
MaxSeeds == 2       \* InsertReferral calls in a run of SpecCache
MaxCacheCalls == 3  \* calls into the cache in a run of SpecCache
MaxWork == 4        \* calls into the mempool in a run of SpecPoolMT

NullAddr == 0       \* Address{} (uint160 zero), IsNull()
Addr == 1..NAddr
Addr0 == 0..NAddr
Hashes == 1..NHash

(***************************************************************************)
(* Finite maps, used for the columns of the key-value store and for the    *)
(* std::map members of the cache.                                          *)
(***************************************************************************)
Put(f, k, v) == [x \in (DOMAIN f) \cup {k} |-> IF x = k THEN v ELSE f[x]]
Del(f, k) == [x \in (DOMAIN f) \ {k} |-> f[x]]
EmptyMap == [x \in {} |-> 0]

\* the orders in which a map with key set S can be iterated
Orders(S) ==
    {o \in [1..Cardinality(S) -> S] : \A i, j \in 1..Cardinality(S) : i # j => o[i] # o[j]}

RemoveAll(s, a) == SelectSeq(s, LAMBDA x : x # a)
Count(s, a) == Cardinality({i \in 1..Len(s) : s[i] = a})

(***************************************************************************)
(* Referral records: the fields the subsystem reads.                       *)
(***************************************************************************)
Referral(a, pa, pk, ty) ==
    [address |-> a, parentAddress |-> pa, pubKeyId |-> pk, addressType |-> ty]

\* every referral value a caller can pass
\* (a validated referral has a non-zero type and a non-null key id)
Referrals ==
    {Referral(a, pa, pk, ty) : a \in Addr, pa \in Addr0, pk \in Addr, ty \in 1..MaxType}

\* referrals of a key address: the beacon address is the key id, the type is set
KeyReferrals == {R \in Referrals : R.pubKeyId = R.address /\ R.addressType = 1}

VARIABLES
    db,         \* the key-value store: columns r (DB_REFERRALS), a (DB_ANV),
                \* p (DB_PARENT_KEY), c (DB_CHILDREN)
    cache,      \* ReferralsViewCache::m_referral_cache
    aborted,    \* an assert() has failed: the process is gone
    hist,       \* history of the calls made on the store:
                \*   detached: addresses last inserted with allow_no_parent = true
                \*   legal:    every insert so far found its parent in the store
                \*             or passed allow_no_parent = true
                \*   strict:   moreover every insert was of an address not in the
                \*             store, and every detached insert of a referral whose
                \*             parent is the null address
    last,       \* history: the last call, its arguments, its result, the store before it
    calls,      \* history: how many calls were made (where the model bounds them),
                \* and the clock the mempool's entry times are read from
    order,      \* the last OrderReferrals call: the batch passed, refs as the call
                \* left it, and how the call ended
    pool,       \* ReferralTxMemPool: mapRTx (node -> entry) and mapLinks
                \* (node -> children, a set of nodes)
    m_cs_cache, \* ReferralsViewCache::m_cs_cache: the thread that holds it, or NoThread
    m_wallet_to_referrer,   \* ReferralsViewCache::m_wallet_to_referrer
    thread,     \* the threads inside the cache: the member function a thread
                \* runs, its argument, the step it is executing, what it has
                \* read from the store
    cs,         \* ReferralTxMemPool::cs: the thread that holds it, or NoThread
    worker,     \* the threads inside the mempool: the member function a thread
                \* runs, its argument, the step it is executing, the entries it
                \* has staged, the notifications it has fired
    events,     \* the notifications (NotifyEntryAdded, NotifyEntryRemoved) the
                \* last mempool call fired, in their order
    credited    \* history: per address, the sum of the changes of the UpdateANV
                \* walks that returned true and came through the address

storeVars == <<db, cache, aborted, hist, last>>
threadVars == <<m_cs_cache, m_wallet_to_referrer, thread>>
auxVars == <<cs, worker, events, credited>>
vars == <<db, cache, aborted, hist, last, calls, order, pool,
          m_cs_cache, m_wallet_to_referrer, thread, cs, worker, events, credited>>

EmptyDb == [r |-> EmptyMap, a |-> EmptyMap, p |-> EmptyMap, c |-> EmptyMap]

(***************************************************************************)
(* Store queries.                                                          *)
(***************************************************************************)
HasReferral(d, a) == a \in DOMAIN d.r
GetReferral(d, a) == d.r[a]
HasReferrer(d, a) == a \in DOMAIN d.p
GetReferrer(d, a) == d.p[a]
GetChildren(d, a) == IF a \in DOMAIN d.c THEN d.c[a] ELSE <<>>
HasANV(d, a) == a \in DOMAIN d.a
GetANV(d, a) == d.a[a]

ANVTuple(ty, pk, amount) == [addressType |-> ty, pubKeyId |-> pk, amount |-> amount]

(***************************************************************************)
(* ReferralsViewDB::InsertReferral.  The referral and its zero ANV record  *)
(* are written before the parent is looked up; the lookup therefore sees   *)
(* the referral itself.  Result: the store, and how the call ended         *)
(* ("true", or "abort" on assert(false && "parent referral missing")).     *)
(***************************************************************************)
InsertReferral(d, R, allow_no_parent) ==
    LET d1 == [d EXCEPT !.r = Put(d.r, R.address, R)]
        d2 == [d1 EXCEPT !.a = Put(d1.a, R.pubKeyId, ANVTuple(R.addressType, R.pubKeyId, 0))]
    IN  IF HasReferral(d2, R.parentAddress)
        THEN LET parent_address == GetReferral(d2, R.parentAddress).address
                 d3 == [d2 EXCEPT !.p = Put(d2.p, R.address, parent_address)]
                 children == Append(GetChildren(d3, parent_address), R.address)
             IN  [db |-> [d3 EXCEPT !.c = Put(d3.c, parent_address, children)], ret |-> "true"]
        ELSE IF ~allow_no_parent
        THEN [db |-> d2, ret |-> "abort"]
        ELSE [db |-> d2, ret |-> "true"]

(***************************************************************************)
(* ReferralsViewDB::RemoveReferral.  parent_address stays the null address *)
(* when the parent's referral is not in the store.                         *)
(***************************************************************************)
RemoveReferral(d, R) ==
    LET d1 == [d EXCEPT !.r = Del(d.r, R.address)]
        parent_address == IF HasReferral(d1, R.parentAddress)
                          THEN GetReferral(d1, R.parentAddress).address
                          ELSE NullAddr
        d2 == [d1 EXCEPT !.p = Del(d1.p, R.address)]
        children == RemoveAll(GetChildren(d2, parent_address), R.address)
    IN  [d2 EXCEPT !.c = Put(d2.c, parent_address, children)]

(***************************************************************************)
(* ReferralsViewDB::UpdateANV.  The walk follows GetReferrer from          *)
(* start_address.  MAX_LEVELS is the largest size_t, so on a cycle of      *)
(* parent pointers the loop does not end with `true`: it runs until an     *)
(* assertion fails (amount < 0, or level reaching MAX_LEVELS).  The model  *)
(* ends such a walk with "abort" once it is longer than the number of      *)
(* addresses, which only a cycle makes possible.                           *)
(* Result: the store (writes made before a failure stay) and               *)
(* "true" | "false" | "abort".                                             *)
(***************************************************************************)
RECURSIVE UpdateANVWalk(_, _, _, _)
UpdateANVWalk(d, address, change, level) ==
    IF level > NAddr
    THEN [db |-> d, ret |-> "abort"]
    ELSE IF ~HasANV(d, address)
    THEN [db |-> d, ret |-> "false"]
    ELSE LET anv == GetANV(d, address)
             amount == anv.amount + change
             d1 == [d EXCEPT !.a = Put(d.a, address, [anv EXCEPT !.amount = amount])]
         IN  IF anv.addressType = 0 \/ anv.pubKeyId = NullAddr \/ amount < 0
             THEN [db |-> d, ret |-> "abort"]
             ELSE IF HasReferrer(d1, address)
             THEN UpdateANVWalk(d1, GetReferrer(d1, address), change, level + 1)
             ELSE [db |-> d1, ret |-> "true"]

UpdateANV(d, start_address, change) == UpdateANVWalk(d, start_address, change, 0)

(***************************************************************************)
(* ReferralsViewCache: the read path and Flush.  Flush passes no second    *)
(* argument to InsertReferral; the declaration with the default value is   *)
(* not among the sources, the specification (O-1) gives it as false.       *)
(***************************************************************************)
DefaultAllowNoParent == FALSE

\* Flush's loop over the cached referrals, visited in the order `order`
RECURSIVE FlushLoop(_, _, _)
FlushLoop(d, c, visit) ==
    IF visit = <<>>
    THEN [db |-> d, ret |-> "true"]
    ELSE LET res == InsertReferral(d, c[Head(visit)], DefaultAllowNoParent)
         IN  IF res.ret = "abort"
             THEN res
             ELSE FlushLoop(res.db, c, Tail(visit))

(***************************************************************************)
(* Who removes children first: no referral record names a as its parent    *)
(* and no parent pointer leads to a.                                       *)
(***************************************************************************)
IsLeaf(d, a) ==
    /\ \A x \in DOMAIN d.r : x # a => d.r[x].parentAddress # a
    /\ \A x \in DOMAIN d.p : x # a => d.p[x] # a

\* the caller's side of an insert, as the store's contract words it
LegalInsert(d, R, allow_no_parent) ==
    HasReferral(d, R.parentAddress) \/ allow_no_parent

StrictInsert(d, R, allow_no_parent) ==
    /\ ~HasReferral(d, R.address)
    /\ R.parentAddress # R.address
    /\ \/ HasReferral(d, R.parentAddress)
       \/ allow_no_parent /\ R.parentAddress = NullAddr

\* arg: the address, referral or time passed; num: the change passed to
\* UpdateANV, the entry time passed to AddUnchecked, the count returned by
\* Expire; pre: the state before the call
NoCall == [op |-> "none", arg |-> NullAddr, num |-> 0, ret |-> "none", pre |-> EmptyDb]
Call(op, arg, num, ret, pre) ==
    [op |-> op, arg |-> arg, num |-> num, ret |-> ret, pre |-> pre]

ChildrenBounded(d) == \A k \in DOMAIN d.c : Len(d.c[k]) <= MaxChildren
AmountsBounded(d) == \A k \in DOMAIN d.a : d.a[k].amount <= MaxAmount

NoCalls == [insert |-> 0, update |-> 0, add |-> 0, remove |-> 0, clock |-> 1, cache |-> 0,
            work |-> 0]

Threads == 1..NThreads
NoThread == 0
NoReferral == Referral(NullAddr, NullAddr, NullAddr, 0)
Idle == [op |-> "none", arg |-> NullAddr, pc |-> "idle", ref |-> NoReferral, parent |-> NullAddr]
IdleWorker == [op |-> "none", arg |-> NullAddr, pc |-> "idle", stage |-> {}, fired |-> <<>>]
NoOrder == [input |-> <<>>, refs |-> <<>>, ret |-> "none"]
EmptyPool == [mapRTx |-> EmptyMap, mapLinks |-> EmptyMap]

StoreInit ==
    /\ db = EmptyDb
    /\ cache = EmptyMap
    /\ aborted = FALSE
    /\ hist = [detached |-> {}, legal |-> TRUE, strict |-> TRUE]
    /\ last = NoCall
    /\ calls = NoCalls
    /\ order = NoOrder
    /\ pool = EmptyPool
    /\ m_cs_cache = NoThread
    /\ m_wallet_to_referrer = EmptyMap
    /\ thread = [t \in Threads |-> Idle]
    /\ cs = NoThread
    /\ worker = [t \in Threads |-> IdleWorker]
    /\ events = <<>>
    /\ credited = [a \in Addr |-> 0]

(***************************************************************************)
(* Actions of the store and of the cache in front of it (one caller).      *)
(***************************************************************************)
DoInsertReferral(S) ==
    \E R \in S, allow_no_parent \in BOOLEAN :
        LET res == InsertReferral(db, R, allow_no_parent)
        IN  /\ ~aborted
            /\ ChildrenBounded(res.db)
            /\ db' = res.db
            /\ aborted' = (res.ret = "abort")
            /\ hist' = [detached |-> IF allow_no_parent
                                      THEN hist.detached \cup {R.address}
                                      ELSE hist.detached \ {R.address},
                         legal |-> hist.legal /\ LegalInsert(db, R, allow_no_parent),
                         strict |-> hist.strict /\ StrictInsert(db, R, allow_no_parent)]
            /\ last' = Call("insert", R.address, 0, res.ret, EmptyDb)
            /\ UNCHANGED cache

DoRemoveReferral ==
    \E a \in DOMAIN db.r :
        /\ ~aborted
        /\ IsLeaf(db, a)
        /\ db' = RemoveReferral(db, db.r[a])
        /\ hist' = [hist EXCEPT !.detached = @ \ {a}]
        /\ last' = Call("remove", a, 0, "true", EmptyDb)
        /\ UNCHANGED <<cache, aborted>>

DoUpdateANV ==
    \E start_address \in Addr, change \in {-1, 1} :
        LET res == UpdateANV(db, start_address, change)
        IN  /\ ~aborted
            /\ AmountsBounded(res.db)
            /\ db' = res.db
            /\ aborted' = (res.ret = "abort")
            /\ last' = Call("updateanv", start_address, change, res.ret, db.a)
            /\ UNCHANGED <<cache, hist>>

\* ReferralsViewCache::GetReferral and ReferralAddressExists: a miss that the
\* store answers populates the cache
CacheGetReferral ==
    \E a \in Addr :
        /\ ~aborted
        /\ a \notin DOMAIN cache
        /\ HasReferral(db, a)
        /\ cache' = Put(cache, a, GetReferral(db, a))
        /\ last' = Call("get", a, 0, "true", EmptyDb)
        /\ UNCHANGED <<db, aborted, hist>>

\* ReferralsViewCache::RemoveReferral
CacheRemoveReferral ==
    \E a \in DOMAIN db.r :
        /\ ~aborted
        /\ IsLeaf(db, a)
        /\ cache' = Del(cache, a)
        /\ db' = RemoveReferral(db, db.r[a])
        /\ hist' = [hist EXCEPT !.detached = @ \ {a}]
        /\ last' = Call("cacheremove", a, 0, "true", EmptyDb)
        /\ UNCHANGED aborted

\* ReferralsViewCache::Flush
Flush ==
    \E visit \in Orders(DOMAIN cache) :
        LET res == FlushLoop(db, cache, visit)
        IN  /\ ~aborted
            /\ ChildrenBounded(res.db)
            /\ db' = res.db
            /\ aborted' = (res.ret = "abort")
            /\ cache' = IF res.ret = "abort" THEN cache ELSE EmptyMap
            /\ last' = Call("flush", NullAddr, 0, res.ret, db)
            /\ UNCHANGED hist

(***************************************************************************)
(* The store behind its cache, one caller, referrals of key addresses.     *)
(***************************************************************************)
StoreInsert == DoInsertReferral(KeyReferrals) /\ UNCHANGED <<calls, order, pool, threadVars, auxVars>>
StoreRemove == DoRemoveReferral /\ UNCHANGED <<calls, order, pool, threadVars, auxVars>>
StoreCacheGet == CacheGetReferral /\ UNCHANGED <<calls, order, pool, threadVars, auxVars>>
StoreCacheRemove == CacheRemoveReferral /\ UNCHANGED <<calls, order, pool, threadVars, auxVars>>
StoreFlush == Flush /\ UNCHANGED <<calls, order, pool, threadVars, auxVars>>

StoreNext ==
    \/ StoreInsert
    \/ StoreRemove
    \/ StoreCacheGet
    \/ StoreCacheRemove
    \/ StoreFlush

SpecStore == StoreInit /\ [][StoreNext]_vars

(***************************************************************************)
(* The store with every referral value and the ANV propagator.  The number *)
(* of calls is bounded: calls counts the inserts and the updates made.     *)
(***************************************************************************)
ANVInsert ==
    /\ calls.insert < MaxInserts
    /\ DoInsertReferral(Referrals)
    /\ calls' = [calls EXCEPT !.insert = @ + 1]
    /\ UNCHANGED <<order, pool, threadVars, auxVars>>

ANVUpdate ==
    /\ calls.update < MaxUpdates
    /\ DoUpdateANV
    /\ calls' = [calls EXCEPT !.update = @ + 1]
    /\ UNCHANGED <<order, pool, threadVars, auxVars>>

ANVNext ==
    \/ ANVInsert
    \/ ANVUpdate

SpecANV == StoreInit /\ [][ANVNext]_vars

(***************************************************************************)
(* ReferralsViewCache under several threads.  A thread executes one member *)
(* function at a time, step by step:                                       *)
(*   "lock"    waiting at the first LOCK(m_cs_cache)                       *)
(*   "find"    inside find()/count() on its map, the mutex held            *)
(*   "loop"    inside Flush's loop and clear(), the mutex held             *)
(*   "db"      inside m_db->GetReferral / m_db->GetReferrer, no mutex held *)
(*   "lock2"   waiting at the LOCK of Insert...IntoCache                   *)
(*   "insert"  inside insert() on its map, the mutex held                  *)
(*   "erase"   inside m_referral_cache.erase() of RemoveReferral, which    *)
(*             takes no lock                                               *)
(*   "dberase" inside m_db->RemoveReferral                                 *)
(* A step of the model is the end of the step the thread is executing.     *)
(* The calls into the store are atomic (the store has its own lock).       *)
(***************************************************************************)
ReferralMapOps == {"GetReferral", "ReferralAddressExists", "Flush", "RemoveReferral"}
WalletMapOps == {"GetReferrer", "WalletIdExists"}
CacheOps == ReferralMapOps \cup WalletMapOps

\* the thread is inside a member function of one of the two maps
Accessing(t) == thread[t].pc \in {"find", "loop", "insert", "erase"}

\* another thread is inside a member function of the same map while t is: as
\* only erase() runs without the mutex, one of the two is that erase()
Racing(t) ==
    \E u \in Threads \ {t} :
        /\ Accessing(u)
        /\ (thread[t].op \in ReferralMapOps) = (thread[u].op \in ReferralMapOps)

\* what a member function makes of a map another thread is inside of: its
\* usual result, or a fault
Outcomes(t) == IF Racing(t) THEN {"intact", "crash"} ELSE {"intact"}

\* std::map::insert keeps the value of a key that is present
MapInsert(f, k, v) == IF k \in DOMAIN f THEN f ELSE Put(f, k, v)

Restrict(f, S) == [k \in S |-> f[k]]

\* m_referral_cache after erase(address): without a race the map less the
\* address; with one, entries may be lost besides
Erased(t, address) ==
    IF Racing(t)
    THEN {Restrict(cache, S) : S \in SUBSET (DOMAIN cache \ {address})}
    ELSE {Del(cache, address)}

\* a thread enters a member function
CacheCall ==
    \E t \in Threads, op \in CacheOps, address \in Addr :
        /\ ~aborted
        /\ calls.cache < MaxCacheCalls
        /\ thread[t].pc = "idle"
        /\ op = "Flush" => address = 1
        /\ op = "RemoveReferral" => HasReferral(db, address) /\ IsLeaf(db, address)
        /\ thread' = [thread EXCEPT ![t] =
                        [op |-> op,
                         arg |-> IF op = "Flush" THEN NullAddr ELSE address,
                         pc |-> IF op = "RemoveReferral" THEN "erase" ELSE "lock",
                         ref |-> IF op = "RemoveReferral" THEN GetReferral(db, address) ELSE NoReferral,
                         parent |-> NullAddr]]
        /\ calls' = [calls EXCEPT !.cache = @ + 1]
        /\ UNCHANGED <<db, cache, aborted, hist, last, order, pool, m_cs_cache, m_wallet_to_referrer, auxVars>>

\* LOCK(m_cs_cache)
CacheLock ==
    \E t \in Threads :
        /\ ~aborted
        /\ thread[t].pc \in {"lock", "lock2"}
        /\ m_cs_cache = NoThread
        /\ m_cs_cache' = t
        /\ thread' = [thread EXCEPT ![t].pc =
                        IF thread[t].pc = "lock2" THEN "insert"
                        ELSE IF thread[t].op = "Flush" THEN "loop" ELSE "find"]
        /\ UNCHANGED <<db, cache, aborted, hist, last, calls, order, pool, m_wallet_to_referrer, auxVars>>

\* the lookup of GetReferral, ReferralAddressExists, GetReferrer and
\* WalletIdExists, and the end of its scope: the mutex is released
CacheFind ==
    \E t \in Threads, slot \in {"intact", "crash"} :
        LET map == IF thread[t].op \in WalletMapOps THEN m_wallet_to_referrer ELSE cache
            hit == thread[t].arg \in DOMAIN map
        IN  /\ ~aborted
            /\ thread[t].pc = "find"
            /\ slot \in Outcomes(t)
            /\ aborted' = (slot = "crash")
            /\ m_cs_cache' = NoThread
            /\ thread' = [thread EXCEPT ![t] = IF hit THEN Idle ELSE [@ EXCEPT !.pc = "db"]]
            /\ UNCHANGED <<db, cache, hist, last, calls, order, pool, m_wallet_to_referrer, auxVars>>

\* m_db->GetReferral(address), m_db->GetReferrer(address)
CacheDbRead ==
    \E t \in Threads :
        /\ ~aborted
        /\ thread[t].pc = "db"
        /\ thread' = [thread EXCEPT ![t] =
                        IF thread[t].op \in WalletMapOps
                        THEN IF HasReferrer(db, thread[t].arg)
                             THEN [@ EXCEPT !.pc = "lock2", !.parent = GetReferrer(db, thread[t].arg)]
                             ELSE Idle
                        ELSE IF HasReferral(db, thread[t].arg)
                             THEN [@ EXCEPT !.pc = "lock2", !.ref = GetReferral(db, thread[t].arg)]
                             ELSE Idle]
        /\ UNCHANGED <<db, cache, aborted, hist, last, calls, order, pool, m_cs_cache, m_wallet_to_referrer, auxVars>>

\* InsertReferralIntoCache, InsertWalletRelationshipIntoCache
CacheInsert ==
    \E t \in Threads, slot \in {"intact", "crash"} :
        /\ ~aborted
        /\ thread[t].pc = "insert"
        /\ slot \in Outcomes(t)
        /\ aborted' = (slot = "crash")
        /\ IF thread[t].op \in WalletMapOps
           THEN /\ m_wallet_to_referrer' =
                        MapInsert(m_wallet_to_referrer, thread[t].arg, thread[t].parent)
                /\ UNCHANGED cache
           ELSE /\ cache' = MapInsert(cache, thread[t].ref.address, thread[t].ref)
                /\ UNCHANGED m_wallet_to_referrer
        /\ m_cs_cache' = NoThread
        /\ thread' = [thread EXCEPT ![t] = Idle]
        /\ UNCHANGED <<db, hist, last, calls, order, pool, auxVars>>

\* Flush: the loop over m_referral_cache, clear(), and the end of the scope
CacheFlush ==
    \E t \in Threads, slot \in {"intact", "crash"} :
        \E visit \in Orders(DOMAIN cache) :
            LET res == FlushLoop(db, cache, visit)
            IN  /\ ~aborted
                /\ thread[t].pc = "loop"
                /\ slot \in Outcomes(t)
                /\ ChildrenBounded(res.db)
                /\ db' = res.db
                /\ aborted' = (res.ret = "abort" \/ slot = "crash")
                /\ cache' = IF res.ret = "abort" THEN cache ELSE EmptyMap
                /\ m_cs_cache' = NoThread
                /\ thread' = [thread EXCEPT ![t] = Idle]
                /\ UNCHANGED <<hist, last, calls, order, pool, m_wallet_to_referrer, auxVars>>

\* RemoveReferral: m_referral_cache.erase(ref.address)
CacheErase ==
    \E t \in Threads, slot \in {"intact", "crash"} :
        \E erased \in Erased(t, thread[t].arg) :
            /\ ~aborted
            /\ thread[t].pc = "erase"
            /\ slot \in Outcomes(t)
            /\ aborted' = (slot = "crash")
            /\ cache' = erased
            /\ thread' = [thread EXCEPT ![t].pc = "dberase"]
            /\ UNCHANGED <<db, hist, last, calls, order, pool, m_cs_cache, m_wallet_to_referrer, auxVars>>

\* RemoveReferral: m_db->RemoveReferral(ref)
CacheDbErase ==
    \E t \in Threads :
        /\ ~aborted
        /\ thread[t].pc = "dberase"
        /\ db' = RemoveReferral(db, thread[t].ref)
        /\ thread' = [thread EXCEPT ![t] = Idle]
        /\ UNCHANGED <<cache, aborted, hist, last, calls, order, pool, m_cs_cache, m_wallet_to_referrer, auxVars>>

\* the store is filled by InsertReferral
CacheSeed ==
    /\ calls.insert < MaxSeeds
    /\ DoInsertReferral(KeyReferrals)
    /\ calls' = [calls EXCEPT !.insert = @ + 1]
    /\ UNCHANGED <<order, pool, threadVars, auxVars>>

CacheNext ==
    \/ CacheSeed
    \/ CacheCall
    \/ CacheLock
    \/ CacheFind
    \/ CacheDbRead
    \/ CacheInsert
    \/ CacheFlush
    \/ CacheErase
    \/ CacheDbErase

SpecCache == StoreInit /\ [][CacheNext]_vars

(***************************************************************************)
(* The cache used by one caller at a time: a member function is entered    *)
(* only when no thread is inside the cache, and the store is filled before *)
(* the first call into the cache.                                          *)
(***************************************************************************)
SeqSeed ==
    /\ calls.cache = 0
    /\ CacheSeed

SeqCall ==
    /\ \A t \in Threads : thread[t].pc = "idle"
    /\ CacheCall

SeqNext ==
    \/ SeqSeed
    \/ SeqCall
    \/ CacheLock
    \/ CacheFind
    \/ CacheDbRead
    \/ CacheInsert
    \/ CacheFlush
    \/ CacheErase
    \/ CacheDbErase

SpecCacheSeq == StoreInit /\ [][SeqNext]_vars

\* C19 (Cache agrees with store): in a sequential run of cache operations, a
\* query that is answered from one of the two maps gets the answer the store
\* gives at that moment: a cached referral is the store's referral of the
\* address, a cached referrer is the store's referrer of the address (after
\* RemoveReferral(R) the store has neither for R.address).
C19_CacheAgreesWithStore ==
    \A t \in Threads :
        thread[t].pc = "find"
            => LET a == thread[t].arg
               IN  IF thread[t].op \in WalletMapOps
                   THEN a \in DOMAIN m_wallet_to_referrer
                            => /\ HasReferrer(db, a)
                               /\ GetReferrer(db, a) = m_wallet_to_referrer[a]
                   ELSE a \in DOMAIN cache
                            => /\ HasReferral(db, a)
                               /\ GetReferral(db, a) = cache[a]

\* C10 (Cache serialization): a thread that is inside a member function of
\* the referral map or of the wallet-to-referrer map holds the cache mutex,
\* and no two threads are inside such a function at the same time.
C10_CacheSerialization ==
    /\ \A t \in Threads : Accessing(t) => m_cs_cache = t
    /\ \A t, u \in Threads : (Accessing(t) /\ Accessing(u)) => t = u

(***************************************************************************)
(* GetReferral and ReferralAddressExists running against RemoveReferral:   *)
(* the store is filled before the first call into the cache, and the       *)
(* threads enter these three member functions only.  The store then loses  *)
(* a referral only at the last step of a RemoveReferral, and the cache     *)
(* gains one only from the store.                                          *)
(***************************************************************************)
RaceOps == {"GetReferral", "ReferralAddressExists", "RemoveReferral"}

RaceCall ==
    /\ CacheCall
    /\ \A t \in Threads : thread'[t].op \in RaceOps \cup {Idle.op}

RaceNext ==
    \/ SeqSeed
    \/ RaceCall
    \/ CacheLock
    \/ CacheFind
    \/ CacheDbRead
    \/ CacheInsert
    \/ CacheErase
    \/ CacheDbErase

SpecCacheRace == StoreInit /\ [][RaceNext]_vars

\* every call into the cache has returned
Finished == ~aborted /\ \A t \in Threads : thread[t].pc = "idle"

\* C21 (No resurrection under interleaving): when GetReferral(a) or
\* ReferralAddressExists(a) has run against RemoveReferral(R) with
\* R.address = a in any interleaving and every thread has finished, the
\* referral map does not hold a, so that a later GetReferral(a) is answered
\* by the store and returns absent: the addresses the referral map holds are
\* addresses the store has a referral of.  The store is one filled by
\* inserts of new addresses that found their parent.
C21_NoResurrection ==
    (Finished /\ hist.strict) => \A a \in DOMAIN cache : HasReferral(db, a)

(***************************************************************************)
(* ReferralsViewDB::OrderReferrals.  A referral of a batch is its codeHash *)
(* and its previousReferral; GetReferral(previousReferral) looks the hash  *)
(* up among the keys of the referral column.                               *)
(***************************************************************************)
BatchRef(code, prev) == [codeHash |-> code, previousReferral |-> prev]
BatchRefs == {BatchRef(code, prev) : code \in Hashes, prev \in Hashes}
Batches == UNION {[1..n -> BatchRefs] : n \in 0..MaxBatch}

IsRoot(d, ref) == HasReferral(d, ref.previousReferral)

\* the permutations of 1..n, for every batch length n
IndexOrders == [n \in 0..MaxBatch |-> Orders(1..n)]

Permute(refs, o) == [i \in 1..Len(refs) |-> refs[o[i]]]

\* std::partition: the roots first; the order inside the two groups is
\* unspecified, every arrangement is a possible result
Partitions(d, refs) ==
    {p \in {Permute(refs, o) : o \in IndexOrders[Len(refs)]} :
        \A i, j \in 1..Len(refs) : (i < j /\ IsRoot(d, p[j])) => IsRoot(d, p[i])}

NumRoots(d, refs) == Cardinality({i \in 1..Len(refs) : IsRoot(d, refs[i])})

\* graph[h] after the two for_each loops: the referrals behind end_roots whose
\* previousReferral is h, in their order
GraphChildren(interior, h) == SelectSeq(interior, LAMBDA r : r.previousReferral = h)

\* the breadth first walk: refs, the work queue and the output position
RECURSIVE OrderWalk(_, _, _, _)
OrderWalk(refs, to_process, replace, interior) ==
    IF to_process = <<>> \/ replace > Len(refs)
    THEN [refs |-> refs, to_process |-> to_process, replace |-> replace]
    ELSE LET ref == Head(to_process)
         IN  OrderWalk([refs EXCEPT ![replace] = ref],
                       Tail(to_process) \o GraphChildren(interior, ref.codeHash),
                       replace + 1,
                       interior)

\* the test after the walk, without its test of the output position
OrderCompleteQueueOnly(refs, replace, to_process) ==
    to_process = <<>>

\* the test after the walk
OrderComplete(refs, replace, to_process) ==
    ~(replace # Len(refs) + 1 \/ to_process # <<>>)

\* `part` is the result of std::partition.  `ref` is a reference to the front
\* of the deque and is read after pop_front(): `slot` tells what the build
\* makes of that read, "intact" (the popped slot still holds the pointer) or
\* "crash" (the read faults).
OrderReferrals(d, part, slot) ==
    LET n == NumRoots(d, part)
        roots == SubSeq(part, 1, n)
        interior == SubSeq(part, n + 1, Len(part))
        w == OrderWalk(part, roots, 1, interior)
    IN  IF part = <<>>
        THEN [refs |-> part, ret |-> "true"]
        ELSE IF n = 0
        THEN [refs |-> part, ret |-> "false"]
        ELSE IF slot = "crash"
        THEN [refs |-> [part EXCEPT ![1] = Head(roots)], ret |-> "abort"]
        ELSE [refs |-> w.refs,
              ret |-> IF OrderComplete(w.refs, w.replace, w.to_process) THEN "true" ELSE "false"]

DoOrderReferrals ==
    \E input \in Batches, slot \in {"intact", "crash"} :
        \E part \in Partitions(db, input) :
            \E res \in {OrderReferrals(db, part, slot)} :
                /\ ~aborted
                /\ order' = [input |-> input, refs |-> res.refs, ret |-> res.ret]
                /\ aborted' = (res.ret = "abort")
                /\ last' = Call("order", NullAddr, 0, res.ret, EmptyDb)
                /\ UNCHANGED <<db, cache, hist>>

(***************************************************************************)
(* The orderer over a store that holds genesis referrals.                  *)
(***************************************************************************)
OrderSeed ==
    /\ DoInsertReferral({R \in KeyReferrals : R.parentAddress = NullAddr})
    /\ order = NoOrder
    /\ UNCHANGED <<calls, order, pool, threadVars, auxVars>>

\* one call in a run: the call reads the store and changes only refs
OrderCall ==
    /\ order = NoOrder
    /\ DoOrderReferrals
    /\ UNCHANGED <<calls, pool, threadVars, auxVars>>

OrderNext ==
    \/ OrderSeed
    \/ OrderCall

SpecOrder == StoreInit /\ [][OrderNext]_vars

\* some order of the batch puts every referral behind its parent, or has that
\* parent in the store
Sound(d, refs) ==
    \A i \in 1..Len(refs) :
        \/ IsRoot(d, refs[i])
        \/ \E j \in 1..(i - 1) : refs[j].codeHash = refs[i].previousReferral

Admissible(d, refs) ==
    \E o \in IndexOrders[Len(refs)] : Sound(d, Permute(refs, o))

\* C5 (Batch orderer soundness): whenever OrderReferrals returns true, the
\* parent of every refs[i] is in the store or is the codeHash of an earlier
\* refs[j].
C5_OrdererSoundness ==
    order.ret = "true" => Sound(db, order.refs)

\* a batch of three came in with a child ahead of its parent and left in order
C5_Witness ==
    /\ order.ret = "true"
    /\ Len(order.refs) = 3
    /\ ~Sound(db, order.input)
    /\ \E i \in 1..3 : ~IsRoot(db, order.refs[i])

\* C6 (Batch orderer completeness): for every batch some order of which puts
\* each referral behind its parent (or has the parent in the store), a call
\* that returns returns true.
C6_OrdererCompleteness ==
    (order.ret \in {"true", "false"} /\ Admissible(db, order.input))
        => order.ret = "true"

\* std::partition as the standard libraries implement it for the iterators
\* of a vector: `first` moves up over the roots, `last` moves down to the next
\* root, the two are swapped (indices from 1, last_ one past the position of
\* `last`)
Swap(refs, i, j) == [refs EXCEPT ![i] = refs[j], ![j] = refs[i]]

RECURSIVE SwapPartition(_, _, _, _)
SwapPartition(d, refs, first, last_) ==
    IF first = last_
    THEN refs
    ELSE IF IsRoot(d, refs[first])
    THEN SwapPartition(d, refs, first + 1, last_)
    ELSE LET found == {first} \cup {i \in (first + 1)..(last_ - 1) : IsRoot(d, refs[i])}
             l == CHOOSE i \in found : \A j \in found : j <= i
         IN  IF l = first
             THEN refs
             ELSE SwapPartition(d, Swap(refs, first, l), first + 1, l)

StdPartition(d, refs) == SwapPartition(d, refs, 1, Len(refs) + 1)

\* the order the walk gives when the partition keeps the relative order of
\* the roots and of the other referrals
StableOrder(d, input) ==
    LET roots == SelectSeq(input, LAMBDA r : IsRoot(d, r))
        interior == SelectSeq(input, LAMBDA r : ~IsRoot(d, r))
    IN  OrderWalk(roots \o interior, roots, 1, interior).refs

\* C17 (Orderer output order): when OrderReferrals returns true, refs holds the
\* roots first, in their relative order of the batch passed, then the other
\* referrals breadth first, siblings in their relative order of the batch
\* (stated for the calls whose result is the one the libraries' std::partition
\* gives).
C17_OutputOrder ==
    ( /\ order.ret = "true"
      /\ order.refs = OrderReferrals(db, StdPartition(db, order.input), "intact").refs )
    => order.refs = StableOrder(db, order.input)

\* refs holds every referral as often as the batch passed did
SameReferrals(refs, input) ==
    /\ Len(refs) = Len(input)
    /\ \A x \in BatchRefs : Count(refs, x) = Count(input, x)

\* a referral whose claimed parent is neither in the store nor in the batch
Orphan(d, input, i) ==
    /\ ~IsRoot(d, input[i])
    /\ \A j \in 1..Len(input) : input[j].codeHash # input[i].previousReferral

\* C12 (Orderer writes every referral once): when OrderReferrals returns true,
\* refs is a permutation of the batch passed and the batch has no referral
\* whose claimed parent is neither in the store nor in the batch.
C12_OrdererPermutation ==
    order.ret = "true"
        => /\ SameReferrals(order.refs, order.input)
           /\ \A i \in 1..Len(order.input) : ~Orphan(db, order.input, i)

(***************************************************************************)
(* ReferralTxMemPool.  A referral of the pool is its address and its       *)
(* parentAddress; its hash stands for its content, so the primary index    *)
(* holds a referral value at most once.  An iterator (refiter) is the node *)
(* that holds the entry: erasing an entry frees its node, a later insert   *)
(* takes a node that is not in use, a freed one included.  An iterator     *)
(* kept in a children set after its entry was erased dangles: it is read   *)
(* as the entry that took the node since, and reading it while the node is *)
(* free ends the call ("abort": the assertions of GetMemPoolChildren, or a *)
(* fault).                                                                 *)
(***************************************************************************)
PoolRef(a, pa) == [address |-> a, parentAddress |-> pa]
PoolRefs == {PoolRef(a, pa) : a \in 1..NPoolAddr, pa \in 0..NPoolAddr}
Times == 1..MaxTime
Nodes == 1..MaxPool
End == 0            \* mapRTx.end()

PoolEntry(ref, time) == [ref |-> ref, time |-> time]

Live(pl) == DOMAIN pl.mapRTx
PoolRefsOf(pl) == {pl.mapRTx[n].ref : n \in Live(pl)}

\* mapRTx.find(hash)
FindRef(pl, ref) ==
    IF \E n \in Live(pl) : pl.mapRTx[n].ref = ref
    THEN CHOOSE n \in Live(pl) : pl.mapRTx[n].ref = ref
    ELSE End

\* the nodes a new entry can be put in: the lowest unused one, or one that was
\* freed and that a children set still refers to
Dangling(pl) == (UNION {pl.mapLinks[m] : m \in DOMAIN pl.mapLinks}) \ Live(pl)
FreshNodes(pl) ==
    LET unused == Nodes \ Live(pl)
    IN  {n \in unused : n \in Dangling(pl) \/ \A m \in unused : n <= m}

\* the entries find_if can stop at: those whose address is the new entry's
\* parentAddress (the order of the primary index is not specified)
ParentCandidates(pl, ref) ==
    {m \in Live(pl) : pl.mapRTx[m].ref.address = ref.parentAddress}

(***************************************************************************)
(* ReferralTxMemPool::AddUnchecked.  node is where insert() puts the entry *)
(* when its hash is new; parentit is where find_if stops (End: nowhere).   *)
(***************************************************************************)
AddUnchecked(pl, entry, node, parentit) ==
    LET found == FindRef(pl, entry.ref)
        newit == IF found # End THEN found ELSE node
        rtx == IF found # End THEN pl.mapRTx ELSE Put(pl.mapRTx, node, entry)
        links == IF newit \in DOMAIN pl.mapLinks
                 THEN pl.mapLinks
                 ELSE Put(pl.mapLinks, newit, {})
    IN  [mapRTx |-> rtx,
         mapLinks |-> IF parentit # End
                      THEN [links EXCEPT ![parentit] = @ \cup {newit}]
                      ELSE links]

(***************************************************************************)
(* ReferralTxMemPool::GetMemPoolChildren and CalculateDescendants.         *)
(* Result: setDescendants and whether the walk came through (ok).          *)
(***************************************************************************)
HasMemPoolChildren(pl, entryit) ==
    entryit \in Live(pl) /\ entryit \in DOMAIN pl.mapLinks

GetMemPoolChildren(pl, entryit) == pl.mapLinks[entryit]

RECURSIVE DescendantsWalk(_, _, _)
DescendantsWalk(pl, stage, setDescendants) ==
    IF stage = {}
    THEN [set |-> setDescendants, ok |-> TRUE]
    ELSE LET it == CHOOSE x \in stage : \A y \in stage : x <= y
             desc == setDescendants \cup {it}
         IN  IF ~HasMemPoolChildren(pl, it)
             THEN [set |-> desc, ok |-> FALSE]
             ELSE DescendantsWalk(pl,
                                  (stage \ {it}) \cup (GetMemPoolChildren(pl, it) \ desc),
                                  desc)

CalculateDescendants(pl, entryit, setDescendants) ==
    DescendantsWalk(pl, IF entryit \in setDescendants THEN {} ELSE {entryit}, setDescendants)

(***************************************************************************)
(* RemoveUnchecked and RemoveStaged.  RemoveUnchecked passes the iterator  *)
(* to mapLinks.erase after mapRTx.erase freed its node; the actions below  *)
(* choose what the build makes of that read ("intact" | "crash").          *)
(***************************************************************************)
RemoveUnchecked(pl, it) ==
    [mapRTx |-> Del(pl.mapRTx, it), mapLinks |-> Del(pl.mapLinks, it)]

RECURSIVE RemoveStaged(_, _)
RemoveStaged(pl, stage) ==
    IF stage = {}
    THEN pl
    ELSE LET it == CHOOSE x \in stage : \A y \in stage : x <= y
         IN  RemoveStaged(RemoveUnchecked(pl, it), stage \ {it})

\* NotifyEntryAdded(entry), NotifyEntryRemoved(entry, reason)
Notification(kind, ref, reason) == [kind |-> kind, ref |-> ref, reason |-> reason]

\* the notifications RemoveStaged fires
RECURSIVE StagedEvents(_, _, _)
StagedEvents(pl, stage, reason) ==
    IF stage = {}
    THEN <<>>
    ELSE LET it == CHOOSE x \in stage : \A y \in stage : x <= y
         IN  <<Notification("removed", pl.mapRTx[it].ref, reason)>>
                 \o StagedEvents(RemoveUnchecked(pl, it), stage \ {it}, reason)

\* RemoveRecursive: [pool, ret], ret "done" | "abort"
RemoveRecursive(pl, origRef, slot) ==
    LET origit == FindRef(pl, origRef)
        toRemove == CalculateDescendants(pl, origit, {})
    IN  IF origit = End
        THEN [pool |-> pl, ret |-> "done"]
        ELSE IF ~toRemove.ok \/ slot = "crash"
        THEN [pool |-> pl, ret |-> "abort"]
        ELSE [pool |-> RemoveStaged(pl, toRemove.set), ret |-> "done"]

\* a RemoveForBlock that stops after the first referral of the block
RemoveForBlockFirstOnly(pl, vRefs) ==
    IF vRefs = <<>>
    THEN pl
    ELSE LET it == FindRef(pl, Head(vRefs))
         IN  IF it # End THEN RemoveUnchecked(pl, it) ELSE pl

\* RemoveForBlock
RECURSIVE RemoveForBlock(_, _)
RemoveForBlock(pl, vRefs) ==
    IF vRefs = <<>>
    THEN pl
    ELSE LET it == FindRef(pl, Head(vRefs))
         IN  RemoveForBlock(IF it # End THEN RemoveUnchecked(pl, it) ELSE pl, Tail(vRefs))

\* the notifications RemoveForBlock fires
RECURSIVE BlockEvents(_, _)
BlockEvents(pl, vRefs) ==
    IF vRefs = <<>>
    THEN <<>>
    ELSE LET it == FindRef(pl, Head(vRefs))
         IN  IF it # End
             THEN <<Notification("removed", Head(vRefs), "BLOCK")>>
                      \o BlockEvents(RemoveUnchecked(pl, it), Tail(vRefs))
             ELSE BlockEvents(pl, Tail(vRefs))

\* the referrals of a block, as RemoveForBlock gets them
Blocks == UNION {[1..n -> PoolRefs] : n \in 1..MaxBlock}

\* Expire: the closure of the entries older than time
RECURSIVE ExpireStage(_, _, _)
ExpireStage(pl, toRemove, stage) ==
    IF toRemove = {}
    THEN [set |-> stage, ok |-> TRUE]
    ELSE LET removeit == CHOOSE x \in toRemove : \A y \in toRemove : x <= y
             res == CalculateDescendants(pl, removeit, stage)
         IN  IF ~res.ok
             THEN res
             ELSE ExpireStage(pl, toRemove \ {removeit}, res.set)

\* Expire: [pool, ret, count], ret "done" | "abort", count the number returned
Expire(pl, time, slot) ==
    LET toRemove == {n \in Live(pl) : pl.mapRTx[n].time < time}
        stage == ExpireStage(pl, toRemove, {})
    IN  IF ~stage.ok \/ (slot = "crash" /\ stage.set # {})
        THEN [pool |-> pl, ret |-> "abort", count |-> 0]
        ELSE [pool |-> RemoveStaged(pl, stage.set), ret |-> "done",
              count |-> Cardinality(stage.set)]

(***************************************************************************)
(* Actions of the mempool.                                                 *)
(***************************************************************************)
DoAddUnchecked ==
    \E ref \in PoolRefs, time \in Times :
        \E node \in (IF FindRef(pool, ref) # End THEN {End} ELSE FreshNodes(pool)) :
            LET entry == PoolEntry(ref, time)
                inserted == AddUnchecked(pool, entry, node, End)
                cands == ParentCandidates(inserted, ref)
            IN  \E parentit \in (IF cands = {} THEN {End} ELSE cands) :
                    /\ ~aborted
                    /\ pool' = AddUnchecked(pool, entry, node, parentit)
                    /\ last' = Call("add", ref, time, "true", EmptyDb)
                    /\ events' = <<Notification("added", ref, "NONE")>>
                    /\ UNCHANGED aborted

DoRemoveRecursive ==
    \E origRef \in PoolRefs, slot \in {"intact", "crash"} :
        \E res \in {RemoveRecursive(pool, origRef, slot)} :
            /\ ~aborted
            /\ pool' = res.pool
            /\ aborted' = (res.ret = "abort")
            /\ events' = IF res.ret = "done" /\ FindRef(pool, origRef) # End
                         THEN StagedEvents(pool,
                                           CalculateDescendants(pool, FindRef(pool, origRef), {}).set,
                                           "UNKNOWN")
                         ELSE <<>>
            /\ last' = Call("removerecursive", origRef, 0, res.ret, pool)

DoRemoveForBlock ==
    \E vRefs \in Blocks, slot \in {"intact", "crash"} :
        /\ ~aborted
        /\ IF slot = "crash" /\ \E i \in 1..Len(vRefs) : FindRef(pool, vRefs[i]) # End
           THEN pool' = pool /\ aborted' = TRUE /\ events' = <<>>
           ELSE /\ pool' = RemoveForBlock(pool, vRefs)
                /\ aborted' = FALSE
                /\ events' = BlockEvents(pool, vRefs)
        /\ last' = Call("removeforblock", vRefs, 0, IF aborted' THEN "abort" ELSE "done", pool)

DoExpire ==
    \E time \in 1..(MaxTime + 1), slot \in {"intact", "crash"} :
        \E res \in {Expire(pool, time, slot)} :
            /\ ~aborted
            /\ pool' = res.pool
            /\ aborted' = (res.ret = "abort")
            /\ events' = IF res.ret = "done"
                         THEN StagedEvents(pool,
                                           ExpireStage(pool,
                                                       {n \in Live(pool) : pool.mapRTx[n].time < time},
                                                       {}).set,
                                           "EXPIRY")
                         ELSE <<>>
            /\ last' = Call("expire", time, res.count, res.ret, pool)

\* the mempool alone; the adds and the removing calls of a run are bounded,
\* and the entry time of an add is the time of the clock, which never goes back
PoolAdd ==
    /\ calls.add < MaxAdds
    /\ DoAddUnchecked
    /\ last'.num >= calls.clock
    /\ calls' = [calls EXCEPT !.add = @ + 1, !.clock = last'.num]
    /\ UNCHANGED <<db, cache, hist, order, threadVars, cs, worker, credited>>

PoolRemoveRecursive ==
    /\ calls.remove < MaxRemoves
    /\ DoRemoveRecursive
    /\ calls' = [calls EXCEPT !.remove = @ + 1]
    /\ UNCHANGED <<db, cache, hist, order, threadVars, cs, worker, credited>>

PoolRemoveForBlock ==
    /\ calls.remove < MaxRemoves
    /\ DoRemoveForBlock
    /\ calls' = [calls EXCEPT !.remove = @ + 1]
    /\ UNCHANGED <<db, cache, hist, order, threadVars, cs, worker, credited>>

PoolExpire ==
    /\ calls.remove < MaxRemoves
    /\ DoExpire
    /\ calls' = [calls EXCEPT !.remove = @ + 1]
    /\ UNCHANGED <<db, cache, hist, order, threadVars, cs, worker, credited>>

PoolNext ==
    \/ PoolAdd
    \/ PoolRemoveRecursive
    \/ PoolRemoveForBlock
    \/ PoolExpire

SpecPool == StoreInit /\ [][PoolNext]_vars

(***************************************************************************)
(* ReferralTxMemPool under several threads.  A thread executes one member  *)
(* function at a time, step by step:                                       *)
(*   "notify"  AddUnchecked: inside NotifyEntryAdded, before LOCK(cs)      *)
(*   "lock"    waiting at LOCK(cs)                                         *)
(*   "insert"  AddUnchecked: the two inserts, find_if and the child link,  *)
(*             cs held                                                     *)
(*   "find"    RemoveRecursive: mapRTx.find and CalculateDescendants, cs   *)
(*             held                                                        *)
(*   "remove"  RemoveStaged: one RemoveUnchecked (NotifyEntryRemoved and   *)
(*             the two erases) per step, cs held                           *)
(*   "get"     get(hash): the lookup, cs held                              *)
(* A step of the model is the end of the step the thread is executing.     *)
(* `fired` are the notifications the call has fired so far.                *)
(***************************************************************************)
WorkerOps == {"AddUnchecked", "RemoveRecursive", "get"}

\* the call of t has had an effect that others can see and has not returned
PartlyApplied(t) == worker[t].fired # <<>>

\* t is inside get(), reading the primary index
Observing(t) == worker[t].pc = "get"

\* a thread enters a member function
WorkerCall ==
    \E t \in Threads, op \in WorkerOps, ref \in PoolRefs :
        /\ ~aborted
        /\ calls.work < MaxWork
        /\ worker[t].pc = "idle"
        /\ worker' = [worker EXCEPT ![t] =
                        [op |-> op,
                         arg |-> ref,
                         pc |-> IF op = "AddUnchecked" THEN "notify" ELSE "lock",
                         stage |-> {},
                         fired |-> <<>>]]
        /\ calls' = [calls EXCEPT !.work = @ + 1]
        /\ UNCHANGED <<db, cache, aborted, hist, last, order, pool, threadVars, cs, events, credited>>

\* AddUnchecked: NotifyEntryAdded(entry.GetSharedEntryValue())
WorkerNotify ==
    \E t \in Threads :
        /\ ~aborted
        /\ worker[t].pc = "notify"
        /\ worker' = [worker EXCEPT ![t].pc = "lock",
                                    ![t].fired = <<Notification("added", worker[t].arg, "NONE")>>]
        /\ UNCHANGED <<db, cache, aborted, hist, last, calls, order, pool, threadVars, cs, events, credited>>

\* LOCK(cs)
WorkerLock ==
    \E t \in Threads :
        /\ ~aborted
        /\ worker[t].pc = "lock"
        /\ cs = NoThread
        /\ cs' = t
        /\ worker' = [worker EXCEPT ![t].pc =
                        IF worker[t].op = "AddUnchecked" THEN "insert"
                        ELSE IF worker[t].op = "RemoveRecursive" THEN "find" ELSE "get"]
        /\ UNCHANGED <<db, cache, aborted, hist, last, calls, order, pool, threadVars, events, credited>>

\* AddUnchecked behind its LOCK, and the end of the scope
WorkerInsert ==
    \E t \in {u \in Threads : worker[u].pc = "insert"} :
        \E node \in (IF FindRef(pool, worker[t].arg) # End THEN {End} ELSE FreshNodes(pool)) :
            LET entry == PoolEntry(worker[t].arg, calls.clock)
                inserted == AddUnchecked(pool, entry, node, End)
                cands == ParentCandidates(inserted, worker[t].arg)
            IN  \E parentit \in (IF cands = {} THEN {End} ELSE cands) :
                    /\ ~aborted
                    /\ worker[t].pc = "insert"
                    /\ pool' = AddUnchecked(pool, entry, node, parentit)
                    /\ cs' = NoThread
                    /\ worker' = [worker EXCEPT ![t] = IdleWorker]
                    /\ UNCHANGED <<db, cache, aborted, hist, last, calls, order, threadVars, events, credited>>

\* RemoveRecursive: mapRTx.find and CalculateDescendants
WorkerFind ==
    \E t \in Threads :
        LET origit == FindRef(pool, worker[t].arg)
            toRemove == CalculateDescendants(pool, origit, {})
        IN  /\ ~aborted
            /\ worker[t].pc = "find"
            /\ IF origit = End
               THEN /\ cs' = NoThread
                    /\ worker' = [worker EXCEPT ![t] = IdleWorker]
                    /\ UNCHANGED aborted
               ELSE /\ aborted' = ~toRemove.ok
                    /\ worker' = [worker EXCEPT ![t].pc = "remove", ![t].stage = toRemove.set]
                    /\ UNCHANGED cs
            /\ UNCHANGED <<db, cache, hist, last, calls, order, pool, threadVars, events, credited>>

\* RemoveStaged: RemoveUnchecked of the next staged entry; after the last one
\* the end of RemoveRecursive's scope
WorkerRemove ==
    \E t \in Threads, slot \in {"intact", "crash"} :
        LET it == CHOOSE x \in worker[t].stage : \A y \in worker[t].stage : x <= y
            rest == worker[t].stage \ {it}
        IN  /\ ~aborted
            /\ worker[t].pc = "remove"
            /\ worker[t].stage # {}
            /\ aborted' = (slot = "crash")
            /\ pool' = RemoveUnchecked(pool, it)
            /\ IF rest = {} /\ slot = "intact"
               THEN /\ cs' = NoThread
                    /\ worker' = [worker EXCEPT ![t] = IdleWorker]
               ELSE /\ worker' = [worker EXCEPT
                                    ![t].stage = rest,
                                    ![t].fired = Append(@, Notification("removed",
                                                                       pool.mapRTx[it].ref,
                                                                       "UNKNOWN"))]
                    /\ UNCHANGED cs
            /\ UNCHANGED <<db, cache, hist, last, calls, order, threadVars, events, credited>>

\* get(hash)
WorkerGet ==
    \E t \in Threads :
        /\ ~aborted
        /\ worker[t].pc = "get"
        /\ last' = Call("get", worker[t].arg, 0,
                        IF FindRef(pool, worker[t].arg) # End THEN "found" ELSE "nullptr",
                        EmptyDb)
        /\ cs' = NoThread
        /\ worker' = [worker EXCEPT ![t] = IdleWorker]
        /\ UNCHANGED <<db, cache, aborted, hist, calls, order, pool, threadVars, events, credited>>

PoolMTNext ==
    \/ WorkerCall
    \/ WorkerNotify
    \/ WorkerLock
    \/ WorkerInsert
    \/ WorkerFind
    \/ WorkerRemove
    \/ WorkerGet

SpecPoolMT == StoreInit /\ [][PoolMTNext]_vars

\* C11 (Mempool atomic transitions): a thread whose AddUnchecked or
\* RemoveRecursive call is partly applied (a notification fired, the call not
\* ended) holds the mempool lock, so that no other thread is inside get()
\* meanwhile.
C11_AtomicTransitions ==
    /\ \A t \in Threads : PartlyApplied(t) => cs = t
    /\ \A t, u \in Threads : (PartlyApplied(t) /\ Observing(u)) => t = u

(***************************************************************************)
(* Properties of the mempool.                                              *)
(***************************************************************************)
\* the referrals of refs that have one of S in their mempool ancestor chain
\* (S included), the mempool parent of an entry being a pool entry whose
\* address is the entry's parentAddress
RECURSIVE AncestorClosure(_, _)
AncestorClosure(refs, S) ==
    LET more == {e \in refs \ S : \E p \in S : e.parentAddress = p.address}
    IN  IF more = {} THEN S ELSE AncestorClosure(refs, S \cup more)

\* every address is the address of one entry at most and of no entry's own
\* parent: each entry then has one mempool parent at most
UniqueAddresses(pl) ==
    /\ \A n, m \in Live(pl) : pl.mapRTx[n].ref.address = pl.mapRTx[m].ref.address => n = m
    /\ \A n \in Live(pl) : pl.mapRTx[n].ref.address # pl.mapRTx[n].ref.parentAddress

\* C7 (Mempool descendant closure): after RemoveRecursive(R) on an entry R of
\* the pool has returned, no entry is left that had R in its mempool ancestor
\* chain (stated for pools whose entries have distinct addresses).
C7_DescendantClosure ==
    ( /\ last.op = "removerecursive"
      /\ last.ret = "done"
      /\ last.arg \in PoolRefsOf(last.pre)
      /\ UniqueAddresses(last.pre) )
    => PoolRefsOf(pool) \cap AncestorClosure(PoolRefsOf(last.pre), {last.arg}) = {}

\* C8 (Expiry exactness): an Expire(t) that returned has removed exactly the
\* entries with entryTime < t and their mempool descendants, has left every
\* other entry as it was, and has returned the number of entries removed
\* (stated for pools whose entries have distinct addresses).
C8_ExpiryExactness ==
    (last.op = "expire" /\ last.ret = "done" /\ UniqueAddresses(last.pre))
    => LET before == last.pre
           old == {before.mapRTx[n].ref : n \in {m \in Live(before) : before.mapRTx[m].time < last.arg}}
           gone == AncestorClosure(PoolRefsOf(before), old)
       IN  /\ PoolRefsOf(pool) = PoolRefsOf(before) \ gone
           /\ \A n \in Live(pool) : n \in Live(before) /\ pool.mapRTx[n] = before.mapRTx[n]
           /\ last.num = Cardinality(gone)

\* the descendant computation of a call made in the pool pl: whether every
\* child reference it followed was one of an entry of the pool with a links
\* entry
WalkOfRemoveRecursive(pl, origRef) ==
    CalculateDescendants(pl, FindRef(pl, origRef), {})

WalkOfExpire(pl, time) ==
    ExpireStage(pl, {n \in Live(pl) : pl.mapRTx[n].time < time}, {})

\* C13 (Mempool link validity): in every sequence of AddUnchecked,
\* RemoveForBlock, RemoveRecursive and Expire calls, the descendant computation
\* of a RemoveRecursive or Expire call follows only child references of entries
\* that are in the pool and have a links entry (the assertions of
\* GetMemPoolChildren hold).
C13_LinkValidity ==
    /\ (last.op = "removerecursive" /\ FindRef(last.pre, last.arg) # End)
          => WalkOfRemoveRecursive(last.pre, last.arg).ok
    /\ last.op = "expire" => WalkOfExpire(last.pre, last.arg).ok

\* the referrals of the block vRefs
BlockRefs(vRefs) == {vRefs[i] : i \in 1..Len(vRefs)}

\* C18 (RemoveForBlock frame): a RemoveForBlock(vRefs) that returned has
\* removed exactly the entries of the referrals of vRefs, has fired one
\* notifyEntryRemoved with reason BLOCK for each of them and no other
\* notification, and has left every other entry, the descendants of the
\* removed ones included, as it was.
C18_RemoveForBlockFrame ==
    (last.op = "removeforblock" /\ last.ret = "done")
    => LET before == last.pre
           named == BlockRefs(last.arg) \cap PoolRefsOf(before)
       IN  /\ PoolRefsOf(pool) = PoolRefsOf(before) \ named
           /\ \A n \in Live(pool) : n \in Live(before) /\ pool.mapRTx[n] = before.mapRTx[n]
           /\ Len(events) = Cardinality(named)
           /\ \A r \in named : Count(events, Notification("removed", r, "BLOCK")) = 1

\* a block of two referrals, one of them not in the pool, the other one an
\* entry with a child: the entry is gone, its child has stayed
C18_Witness ==
    /\ last.op = "removeforblock"
    /\ last.ret = "done"
    /\ Len(last.arg) = 2
    /\ Len(events) = 1
    /\ \E n \in Live(last.pre) \ Live(pool) :
          GetMemPoolChildren(last.pre, n) \cap Live(pool) # {}

\* C14 (Mempool links content): in every state reached by AddUnchecked calls
\* alone, the children set of each entry P holds exactly the entries whose
\* parentAddress is P's address (stated for pools whose entries have distinct
\* addresses).
C14_LinksContent ==
    (calls.remove = 0 /\ UniqueAddresses(pool))
        => \A n \in Live(pool) :
              GetMemPoolChildren(pool, n)
                  = {m \in Live(pool) :
                        pool.mapRTx[m].ref.parentAddress = pool.mapRTx[n].ref.address}

\* the nodes reached from the children sets of the nodes S in at most k steps
RECURSIVE LinkedFrom(_, _, _)
LinkedFrom(pl, S, k) ==
    LET next == UNION {pl.mapLinks[n] : n \in S \cap DOMAIN pl.mapLinks}
    IN  IF k = 0 THEN {} ELSE next \cup LinkedFrom(pl, next, k - 1)

\* C15 (Mempool acyclicity): after any sequence of AddUnchecked and removal
\* calls, whatever the addresses of the entries, no entry is reached from
\* itself through children links and no entry is in the children set of more
\* than one entry.
C15_LinksForest ==
    ~aborted
        => /\ \A n \in Live(pool) : n \notin LinkedFrom(pool, {n}, MaxPool)
           /\ \A c \in Live(pool) :
                 Cardinality({n \in Live(pool) : c \in GetMemPoolChildren(pool, n)}) <= 1

(***************************************************************************)
(* Properties of the store.                                                *)
(***************************************************************************)
Confirmed(d) == DOMAIN d.r

\* following GetReferrer from a reaches an address without parent pointer in
\* at most n steps
RECURSIVE ReachesRoot(_, _, _)
ReachesRoot(d, a, n) ==
    IF ~HasReferrer(d, a)
    THEN TRUE
    ELSE IF n = 0
    THEN FALSE
    ELSE ReachesRoot(d, GetReferrer(d, a), n - 1)

\* the addresses on the GetReferrer chain of a, a included (n bounds the walk)
RECURSIVE RootPath(_, _, _)
RootPath(d, a, n) ==
    IF ~HasReferrer(d, a) \/ n = 0
    THEN {a}
    ELSE {a} \cup RootPath(d, GetReferrer(d, a), n - 1)

(***************************************************************************)
(* The ANV propagator next to the cache: referrals of key addresses are    *)
(* inserted, UpdateANV walks are made, the cache is read through and       *)
(* flushed.  credited adds up, per address, the changes of the walks that  *)
(* returned true and came through the address.                             *)
(***************************************************************************)
AccInsert ==
    /\ calls.insert < MaxInserts
    /\ DoInsertReferral(KeyReferrals)
    /\ calls' = [calls EXCEPT !.insert = @ + 1]
    /\ UNCHANGED <<order, pool, threadVars, auxVars>>

AccUpdate ==
    /\ calls.update < MaxUpdates
    /\ DoUpdateANV
    /\ calls' = [calls EXCEPT !.update = @ + 1]
    /\ credited' = IF last'.ret = "true"
                   THEN [a \in Addr |->
                            IF a \in RootPath(db, last'.arg, NAddr)
                            THEN credited[a] + last'.num
                            ELSE credited[a]]
                   ELSE credited
    /\ UNCHANGED <<order, pool, threadVars, cs, worker, events>>

AccCacheGet == CacheGetReferral /\ UNCHANGED <<calls, order, pool, threadVars, auxVars>>

AccFlush == Flush /\ UNCHANGED <<calls, order, pool, threadVars, auxVars>>

AccNext ==
    \/ AccInsert
    \/ AccUpdate
    \/ AccCacheGet
    \/ AccFlush

SpecAcc == StoreInit /\ [][AccNext]_vars

\* C16 (ANV as accumulator): in every state reached by parent-first inserts
\* of new addresses, UpdateANV walks, cache reads and Flush, the ANV amount of
\* an address is the sum of the changes of the successful walks that started
\* at the address or at one of its descendants.
C16_ANVAccumulator ==
    (hist.strict /\ ~aborted)
        => \A a \in DOMAIN db.a : GetANV(db, a).amount = credited[a]

\* C1 (Forest): after legal inserts (the parent in the store, or
\* allow_no_parent) and child-first removes, following GetReferrer from any
\* confirmed address reaches an address without parent pointer in at most N
\* steps, N the number of confirmed referrals.
C1_Forest ==
    (hist.legal /\ ~aborted /\ last.op \in {"insert", "remove"})
        => \A a \in Confirmed(db) : ReachesRoot(db, a, Cardinality(Confirmed(db)))

\* C2 (Bidirectional integrity): in every state reached by parent-first
\* inserts of new addresses, child-first removes and Flush, every confirmed
\* referral whose parent is confirmed occurs exactly once in the parent's
\* child list and has the parent as its referrer.
C2_BidirectionalIntegrity ==
    (hist.strict /\ ~aborted)
        => \A a \in Confirmed(db) :
              LET P == GetReferral(db, a).parentAddress
              IN  HasReferral(db, P)
                    => /\ Count(GetChildren(db, P), a) = 1
                       /\ HasReferrer(db, a)
                       /\ GetReferrer(db, a) = P

\* C20 (Flush does not disturb persisted referrals): the cache holding only
\* referrals it has read from the store, a Flush that has found the parent of
\* every cached referral leaves the store (referral records, parent pointers,
\* child lists, ANV records) as it was before the Flush, and the cache's
\* referral map empty.
C20_FlushFrame ==
    (last.op = "flush" /\ last.ret = "true" /\ hist.strict)
        => /\ db = last.pre
           /\ cache = EmptyMap

\* C9 (Parent-before-child on persistence): in every state of the store, the
\* one an aborted insert leaves included, every referral record has its
\* parent's record in the store or was inserted with allow_no_parent = true.
C9_ParentBeforeChild ==
    \A a \in Confirmed(db) :
        HasReferral(db, GetReferral(db, a).parentAddress) \/ a \in hist.detached

\* C3 (ANV existence): after InsertReferral(R) returned true, GetANV(R.address)
\* is a record, and every ANV record has a non-zero type and a non-null key id.
C3_ANVExistence ==
    /\ (last.op = "insert" /\ last.ret = "true") => HasANV(db, last.arg)
    /\ \A k \in DOMAIN db.a :
          GetANV(db, k).addressType # 0 /\ GetANV(db, k).pubKeyId # NullAddr

\* C4 (ANV propagation): UpdateANV(a, delta) on a confirmed address a of a
\* tree, the amounts staying >= 0, returns true, adds delta to the amount of
\* every address on the root path of a and changes no other amount.
C4_ANVPropagation ==
    LET a == last.arg
        path == RootPath(db, a, NAddr)
        N == Cardinality(Confirmed(db))
    IN  ( /\ last.op = "updateanv"
          /\ a \in Confirmed(db)
          /\ ReachesRoot(db, a, N)
          /\ \A x \in path \cap DOMAIN last.pre : last.pre[x].amount + last.num >= 0 )
        => /\ last.ret = "true"
           /\ \A x \in path :
                 /\ x \in DOMAIN last.pre
                 /\ HasANV(db, x)
                 /\ GetANV(db, x).amount = last.pre[x].amount + last.num
           /\ \A k \in DOMAIN db.a : k \notin path => GetANV(db, k) = last.pre[k]

====
